---- MODULE Spec2Model ----
(***************************************************************************)
(* MetrLaIo (torch_geometric/io/metrla.py): the sliding-window loader      *)
(* get_metrla_data and the thresholded-Gaussian adjacency builder          *)
(* generate_adjacency_matrix, as a state machine over one MetrLaIo         *)
(* instance and the call its caller has in hand: `call` is the last call   *)
(* with its arguments and what it returned or raised, None between calls;  *)
(* `ctor` keeps the constructor's arguments.                               *)
(*                                                                         *)
(* Numbers.  Readings and distances are non-negative integers.  numpy's    *)
(* float values that are not finite numbers are records: Inf and NaN.  A   *)
(* kernel weight exp(-(d/std + 1e-5)^2) is kept symbolically by the        *)
(* square of d/std as a fraction; comparing it with normalized_k compares  *)
(* that fraction with a cutoff.                                            *)
(***************************************************************************)
EXTENDS Integers, Sequences, FiniteSets, TLC

(* ------------------------------ bounds --------------------------------- *)
MaxReadings == 3
MaxSteps == 2
MaxNodes == 2
MaxRows == 2
MaxDist == 1

(* --------------------------- program constants ------------------------- *)
SecondsPerDay == 86400
SecondsPerHour == 3600
HoursPerDay == 24
IntervalDivisor == 720
IntervalsPerDay == 288
DaysPerWeek == 7
EpochWeekday == 3
Float16ExactMax == 2048

VARIABLES
    n_readings, n_previous_steps, n_future_steps, normalized_k,
    x, y, adjacency_matrix, previous_offsets, future_offsets,
    ctor, call

vars == << n_readings, n_previous_steps, n_future_steps, normalized_k,
           x, y, adjacency_matrix, previous_offsets, future_offsets,
           ctor, call >>

fields == << n_readings, n_previous_steps, n_future_steps, normalized_k,
             x, y, adjacency_matrix, previous_offsets, future_offsets >>

None == [none |-> TRUE]

(* ------------------------------ helpers -------------------------------- *)
Abs(i) == IF i < 0 THEN -i ELSE i

RECURSIVE SeqMin(_)
SeqMin(s) == IF Len(s) = 1 THEN s[1]
             ELSE LET m == SeqMin(Tail(s)) IN IF s[1] < m THEN s[1] ELSE m

RECURSIVE SeqMax(_)
SeqMax(s) == IF Len(s) = 1 THEN s[1]
             ELSE LET m == SeqMax(Tail(s)) IN IF s[1] > m THEN s[1] ELSE m

\* np.arange(start, stop, step=1): start, start+1, ..., stop-1
arange(start, stop) ==
    IF stop <= start THEN << >> ELSE [i \in 1..(stop - start) |-> start + i - 1]

\* range(a, b) as the sequence a, a+1, ..., b-1
range(a, b) == arange(a, b)

(* ----------------------------- constructor ----------------------------- *)
\* The constructor validates nothing; the instances drawn have
\* n_previous_steps >= 1 and n_future_steps >= 1, and n_readings from 0.
\* normalized_k in thousandths: the default .1, and .5
DefaultNormalizedK == 100
NormalizedKs == {DefaultNormalizedK, 500}

\* every window configuration with the default normalized_k, and every
\* normalized_k with one window configuration
CtorArgs ==
    [n_readings : 0..MaxReadings, n_previous_steps : 1..MaxSteps,
     n_future_steps : 1..MaxSteps, normalized_k : {DefaultNormalizedK}]
    \cup [n_readings : {MaxReadings}, n_previous_steps : {1},
          n_future_steps : {1}, normalized_k : NormalizedKs]

Init ==
    \E a \in CtorArgs :
        /\ ctor = a
        /\ n_readings = a.n_readings
        /\ n_previous_steps = a.n_previous_steps
        /\ n_future_steps = a.n_future_steps
        /\ normalized_k = a.normalized_k
        /\ x = None
        /\ y = None
        /\ adjacency_matrix = None
        /\ previous_offsets = arange(-a.n_previous_steps + 1, 1)
        /\ future_offsets = arange(1, a.n_future_steps + 1)
        /\ call = None

(* ----------------------------- properties ------------------------------ *)
min_t == Abs(SeqMin(previous_offsets))

max_t == Abs(n_readings - Abs(SeqMax(future_offsets)))

dataset_len == max_t - min_t - 1

data == << x, y >>

(* --------------------------- reading tables ---------------------------- *)
\* pd.read_csv(data_path, index_col=0): the timestamps of the index (seconds
\* since the epoch), the readings by row and sensor column, both 0-based.
\* The tables drawn have a 5-minute cadence and reading[t][s] = base+1000t+s.
\* 2012-03-01 00:00:00, a Thursday: day 15400 of the epoch
Midnight == 15400 * SecondsPerDay

StartTimes == {Midnight, Midnight + SecondsPerDay - 300}

ReadingTable(rows, nodes, start, base) ==
    [n_nodes |-> nodes,
     index   |-> [t \in 0..(rows - 1) |-> start + 300 * t],
     values  |-> [t \in 0..(rows - 1) |->
                    [s \in 0..(nodes - 1) |-> base + 1000 * t + s]]]

ReadingTables(rows) ==
    { ReadingTable(rows, nodes, start, base) :
        nodes \in 1..MaxNodes, start \in StartTimes, base \in {0, 70} }

Len0(f) == Cardinality(DOMAIN f)

KnownKeys == {"features", "hour_of_day", "day_of_week", "interval_of_day"}

\* the feature collections a caller asks for
FeatureRequests ==
    { {}, {"features"}, {"interval_of_day"}, {"hour_of_day", "day_of_week"},
      {"features", "interval_of_day", "speed_limit"} }

(* --------------------------- get_metrla_data --------------------------- *)
\* astype(np.float16) of a non-negative integer below 65520: exact up to
\* 2048, then rounded to the nearest multiple of the binade's step, ties to
\* the even multiple.
RECURSIVE Float16Step(_, _, _)
Float16Step(n, top, step) ==
    IF n < top THEN step ELSE Float16Step(n, 2 * top, 2 * step)

float16(n) ==
    IF n <= Float16ExactMax THEN n
    ELSE LET step == Float16Step(n, 2 * Float16ExactMax, 2)
             q == n \div step
             r == n % step
         IN  IF 2 * r < step THEN q * step
             ELSE IF 2 * r > step THEN (q + 1) * step
             ELSE IF q % 2 = 0 THEN q * step ELSE (q + 1) * step

\* index.astype("datetime64") - index.astype("datetime64[D]"), in seconds
seconds_of_day(ts) == ts % SecondsPerDay

dataset_features(data_df) ==
    [t \in DOMAIN data_df.values |->
        [s \in 0..(data_df.n_nodes - 1) |-> << float16(data_df.values[t][s]) >>]]

hour_of_day(data_df) ==
    [t \in DOMAIN data_df.index |->
        [s \in 0..(data_df.n_nodes - 1) |->
            << (seconds_of_day(data_df.index[t]) \div SecondsPerHour) % HoursPerDay >>]]

\* pandas dayofweek: Monday is 0; the epoch's day 0 was a Thursday
day_of_week(data_df) ==
    [t \in DOMAIN data_df.index |->
        [s \in 0..(data_df.n_nodes - 1) |->
            << ((data_df.index[t] \div SecondsPerDay) + EpochWeekday) % DaysPerWeek >>]]

interval_of_day(data_df) ==
    [t \in DOMAIN data_df.index |->
        [s \in 0..(data_df.n_nodes - 1) |->
            << (seconds_of_day(data_df.index[t]) \div IntervalDivisor) % IntervalsPerDay >>]]

\* the dict `data`: one (time, sensor, 1) tensor per known key asked for
feature_tensors(features, data_df) ==
    [key \in features \cap KnownKeys |->
        CASE key = "features"        -> dataset_features(data_df)
          [] key = "hour_of_day"     -> hour_of_day(data_df)
          [] key = "day_of_week"     -> day_of_week(data_df)
          [] key = "interval_of_day" -> interval_of_day(data_df)]

\* np.swapaxes(value[t + offsets, ...], 0, 1): value[t + offsets] is
\* (window_len, n_nodes, 1), so the swapped window is (n_nodes, window_len, 1)
window(value, t, offsets) ==
    [s \in DOMAIN value[0] |->
        [j \in 0..(Len(offsets) - 1) |-> value[t + offsets[j + 1]][s]]]

\* np.stack([... for t in indices_range], axis=0)
stack(value, indices_range, offsets) ==
    [w \in 0..(Len(indices_range) - 1) |-> window(value, indices_range[w + 1], offsets)]

\* the local `features` when line 76 reads it: the signature has no such
\* parameter and nothing is assigned to it before, so it is unbound,
\* whatever collection the caller has in mind
features_at_entry(requested) == [bound |-> FALSE]

default_features == {"features", "interval_of_day", "day_of_week"}

get_metrla_data_result(requested, data_df) ==
    LET entry == features_at_entry(requested) IN
    IF ~entry.bound THEN [status |-> "UnboundLocalError"]
    ELSE
    LET features == IF entry.value = {} THEN default_features ELSE entry.value
        tensors == feature_tensors(features, data_df)
        indices_range == range(min_t, max_t)
        rows == Len0(data_df.index)
        in_bounds(offsets) ==
            \A w \in 1..Len(indices_range) : \A j \in 1..Len(offsets) :
                indices_range[w] + offsets[j] < rows
    IN  IF DOMAIN tensors = {} THEN [status |-> "ok", x |-> << >>, y |-> << >>]
        ELSE IF ~(in_bounds(previous_offsets) /\ in_bounds(future_offsets))
             THEN [status |-> "IndexError"]
        ELSE IF Len(indices_range) = 0 THEN [status |-> "ValueError"]
        ELSE [status |-> "ok",
              x |-> [key \in DOMAIN tensors |->
                        stack(tensors[key], indices_range, previous_offsets)],
              y |-> [key \in DOMAIN tensors |->
                        stack(tensors[key], indices_range, future_offsets)]]

\* data_path names a table of n_readings rows; `requested` is the feature
\* collection the caller wants, which the signature gives no way to pass
get_metrla_data ==
    /\ call = None
    /\ \E requested \in FeatureRequests, data_df \in ReadingTables(n_readings) :
        call' = [op |-> "get_metrla_data", requested |-> requested,
                 data_df |-> data_df,
                 result |-> get_metrla_data_result(requested, data_df)]
    /\ UNCHANGED fields
    /\ UNCHANGED ctor

(* ----------------------- sensor ids and distances ---------------------- *)
\* the sensor-id file, split at its commas; an empty file splits to [""]
SensorIdFiles ==
    { << "" >>, << "10" >>, << "10", "20" >>, << "20", "10" >>, << "20", "20" >> }

RowIds == {10, 20}

DistanceRows == [src : RowIds, dst : RowIds, dist : 0..MaxDist]

\* pd.read_csv(distances_path): the rows (src, dst, distance) in file order
DistanceTables == UNION { [1..n -> DistanceRows] : n \in 0..MaxRows }

\* int(token)
IsIntToken(token) == token \in {"10", "20"}

int(token) == CASE token = "10" -> 10 [] token = "20" -> 20

read_sensor_ids(file) ==
    IF \A i \in 1..Len(file) : IsIntToken(file[i])
    THEN [status |-> "ok", value |-> [i \in 1..Len(file) |-> int(file[i])]]
    ELSE [status |-> "ValueError"]

(* ----------------------- float values of the kernel -------------------- *)
Inf == [fin |-> FALSE, d |-> 0]

Finite(d) == [fin |-> TRUE, d |-> d]

NaN == [kind |-> "nan", num |-> 0, den |-> 1]

Zero == [kind |-> "zero", num |-> 0, den |-> 1]

\* exp(-(r + 1e-5)^2) for the finite ratio r >= 0 with r^2 = num/den
Exp(num, den) == [kind |-> "exp", num |-> num, den |-> den]

\* (sqrt(ln(1/k)) - 1e-5)^2 in millionths, k in thousandths:
\* exp(-(r + 1e-5)^2) < k exactly when r^2 is above it
CutoffMicro(k) == CASE k = 100 -> 2302554 [] k = 500 -> 693130

(* ---------------------- generate_adjacency_matrix ---------------------- *)
\* np.full(shape=(n_nodes, n_nodes), fill_value=np.inf)
full(n_nodes) == [i \in 0..(n_nodes - 1) |-> [j \in 0..(n_nodes - 1) |-> Inf]]

\* the dict built by enumerate(sensor_ids): a repeated id keeps its last index
sensor_id_to_idx(sensor_ids) ==
    [id \in { sensor_ids[i] : i \in 1..Len(sensor_ids) } |->
        (CHOOSE i \in 1..Len(sensor_ids) :
            /\ sensor_ids[i] = id
            /\ \A j \in (i + 1)..Len(sensor_ids) : sensor_ids[j] # id) - 1]

\* set_distance with `+=` for `=`: a pair recorded again accumulates
set_distance_accumulating(matrix, row, id_to_idx) ==
    IF row.src \in DOMAIN id_to_idx /\ row.dst \in DOMAIN id_to_idx
    THEN LET old == matrix[id_to_idx[row.src]][id_to_idx[row.dst]]
         IN  [matrix EXCEPT ![id_to_idx[row.src]][id_to_idx[row.dst]] =
                  Finite(IF old.fin THEN old.d + row.dist ELSE row.dist)]
    ELSE matrix

\* one iteration of the loop over distances_df.iterrows()
set_distance(matrix, row, id_to_idx) ==
    IF row.src \in DOMAIN id_to_idx /\ row.dst \in DOMAIN id_to_idx
    THEN [matrix EXCEPT ![id_to_idx[row.src]][id_to_idx[row.dst]] = Finite(row.dist)]
    ELSE matrix

RECURSIVE fill_distances(_, _, _)
fill_distances(matrix, rows, id_to_idx) ==
    IF rows = << >> THEN matrix
    ELSE fill_distances(set_distance(matrix, Head(rows), id_to_idx), Tail(rows), id_to_idx)

\* adjacency_matrix[~np.isinf(adjacency_matrix)].flatten(), as the positions kept
finite_positions(matrix) ==
    { p \in (DOMAIN matrix) \X (DOMAIN matrix) : matrix[p[1]][p[2]].fin }

RECURSIVE SumAt(_, _, _)
SumAt(matrix, positions, power) ==
    IF positions = {} THEN 0
    ELSE LET p == CHOOSE q \in positions : TRUE
             d == matrix[p[1]][p[2]].d
         IN  (IF power = 2 THEN d * d ELSE d) + SumAt(matrix, positions \ {p}, power)

\* distances.std(): the population standard deviation, kept as its square
\* num/den; of no value at all it is nan
std(matrix) ==
    LET positions == finite_positions(matrix)
        n == Cardinality(positions)
        s1 == SumAt(matrix, positions, 1)
        s2 == SumAt(matrix, positions, 2)
    IN  IF n = 0 THEN [nan |-> TRUE, num |-> 0, den |-> 1]
        ELSE [nan |-> FALSE, num |-> n * s2 - s1 * s1, den |-> n * n]

\* np.exp(-np.square(entry / std + 1e-5))
kernel(entry, sd) ==
    IF sd.nan THEN NaN                      \* x / nan
    ELSE IF ~entry.fin THEN Zero            \* inf / std = inf, exp(-inf) = 0
    ELSE IF sd.num = 0
         THEN IF entry.d = 0 THEN NaN       \* 0 / 0
              ELSE Zero                     \* d / 0 = inf
    ELSE Exp(entry.d * entry.d * sd.den, sd.num)

\* weight < k; every comparison with nan is False
below(weight, k) ==
    CASE weight.kind = "nan"  -> FALSE
      [] weight.kind = "zero" -> 0 < k
      [] weight.kind = "exp"  -> weight.num * 1000000 > CutoffMicro(k) * weight.den

\* adjacency_matrix[adjacency_matrix < self.normalized_k] = 0.
threshold(weight, k) == IF below(weight, k) THEN Zero ELSE weight

distance_matrix(sensor_ids, distances_df) ==
    fill_distances(full(Len(sensor_ids)), distances_df, sensor_id_to_idx(sensor_ids))

generate_adjacency_matrix_result(file, distances_df, k) ==
    LET ids == read_sensor_ids(file) IN
    IF ids.status # "ok" THEN [status |-> ids.status]
    ELSE
    LET matrix == distance_matrix(ids.value, distances_df)
        sd == std(matrix)
    IN  [status |-> "ok",
         value |-> [i \in DOMAIN matrix |->
                      [j \in DOMAIN matrix |-> threshold(kernel(matrix[i][j], sd), k)]]]

\* generate_adjacency_matrix keeping its result in self.adjacency_matrix
generate_adjacency_matrix_caching ==
    /\ call = None
    /\ \E file \in SensorIdFiles, distances_df \in DistanceTables :
        LET result == generate_adjacency_matrix_result(file, distances_df,
                                                       normalized_k)
        IN  /\ call' = [op |-> "generate_adjacency_matrix", sensor_ids_file |-> file,
                        distances_df |-> distances_df, result |-> result]
            /\ adjacency_matrix' = IF result.status = "ok"
                                   THEN [none |-> FALSE, value |-> result.value]
                                   ELSE adjacency_matrix
    /\ UNCHANGED << n_readings, n_previous_steps, n_future_steps, normalized_k,
                    x, y, previous_offsets, future_offsets, ctor >>

generate_adjacency_matrix ==
    /\ call = None
    /\ \E file \in SensorIdFiles, distances_df \in DistanceTables :
        call' = [op |-> "generate_adjacency_matrix", sensor_ids_file |-> file,
                 distances_df |-> distances_df,
                 result |-> generate_adjacency_matrix_result(file, distances_df,
                                                             normalized_k)]
    /\ UNCHANGED fields
    /\ UNCHANGED ctor

(* ------------------------------- caller -------------------------------- *)
\* the caller takes the value returned (or the exception raised) and the
\* instance is ready for its next call
Return ==
    /\ call # None
    /\ call' = None
    /\ UNCHANGED fields
    /\ UNCHANGED ctor

Next == get_metrla_data \/ generate_adjacency_matrix \/ Return

Spec == Init /\ [][Next]_vars

(* ======================== the claims, one by one ======================= *)
Loaded == call # None /\ call.op = "get_metrla_data"

Built == call # None /\ call.op = "generate_adjacency_matrix"

\* n_previous_steps >= 1 and n_future_steps >= 1 hold of every instance drawn
ValidConfig == n_readings >= n_previous_steps + n_future_steps

ValidRequest == Loaded /\ call.requested # {} /\ call.requested \subseteq KnownKeys

Shape(tensor) ==
    << Len0(tensor), Len0(tensor[0]), Len0(tensor[0][0]), Len(tensor[0][0][0]) >>

\* C1: after get_metrla_data on a table of n_readings rows and n_nodes
\* sensors, for every requested key X has shape (n_windows,
\* n_previous_steps, n_nodes, 1) and Y has shape (n_windows, n_future_steps,
\* n_nodes, 1).
C1_Shapes ==
    (ValidRequest /\ ValidConfig) =>
        /\ call.result.status = "ok"
        /\ \A key \in call.requested :
            /\ Shape(call.result.x[key]) =
                 << max_t - min_t, n_previous_steps, call.data_df.n_nodes, 1 >>
            /\ Shape(call.result.y[key]) =
                 << max_t - min_t, n_future_steps, call.data_df.n_nodes, 1 >>

\* C2: the w-th predictor window holds, for every sensor, the feature-tensor
\* values of rows t-(n_previous_steps-1) .. t in increasing time order, and
\* the w-th target window those of rows t+1 .. t+n_future_steps, both for the
\* same center t = min_t + w (windows indexed window, sensor, step).
C2_WindowRows ==
    (ValidRequest /\ ValidConfig /\ "features" \in call.requested) =>
        /\ call.result.status = "ok"
        /\ LET value == dataset_features(call.data_df)
               X == call.result.x["features"]
               Y == call.result.y["features"]
           IN  \A w \in 0..(max_t - min_t - 1) : \A s \in 0..(call.data_df.n_nodes - 1) :
                 LET t == min_t + w IN
                 /\ \A j \in 0..(n_previous_steps - 1) :
                        X[w][s][j] = value[t - (n_previous_steps - 1) + j][s]
                 /\ \A j \in 0..(n_future_steps - 1) :
                        Y[w][s][j] = value[t + 1 + j][s]

\* C3: for n_readings >= n_previous_steps + n_future_steps, min_t =
\* n_previous_steps - 1, max_t = n_readings - n_future_steps, get_metrla_data
\* produces max_t - min_t windows for every requested key, in X and in Y,
\* and dataset_len is max_t - min_t - 1.
C3_WindowCount ==
    ValidConfig =>
        /\ min_t = n_previous_steps - 1
        /\ max_t = n_readings - n_future_steps
        /\ dataset_len = max_t - min_t - 1
        /\ ValidRequest =>
            /\ call.result.status = "ok"
            /\ \A key \in call.requested :
                /\ Len0(call.result.x[key]) = max_t - min_t
                /\ Len0(call.result.y[key]) = max_t - min_t

\* C4: on a table with a 5-minute cadence starting at midnight, the
\* interval_of_day feature of row k is k mod 288, the same for every sensor.
C4_IntervalOfDay ==
    (ValidRequest /\ ValidConfig /\ "interval_of_day" \in call.requested
        /\ call.data_df.index[0] = Midnight) =>
        /\ call.result.status = "ok"
        /\ LET X == call.result.x["interval_of_day"]
               Y == call.result.y["interval_of_day"]
           IN  \A w \in 0..(max_t - min_t - 1) : \A s \in 0..(call.data_df.n_nodes - 1) :
                 LET t == min_t + w IN
                 /\ \A j \in 0..(n_previous_steps - 1) :
                        X[w][s][j] = << (t - (n_previous_steps - 1) + j) % IntervalsPerDay >>
                 /\ \A j \in 0..(n_future_steps - 1) :
                        Y[w][s][j] = << (t + 1 + j) % IntervalsPerDay >>

\* C5: get_metrla_data fails with a ConfigurationError whenever the
\* requested features are empty or hold a key outside the four known ones.
C5_ConfigurationError ==
    (Loaded /\ (call.requested = {} \/ ~(call.requested \subseteq KnownKeys))) =>
        call.result.status = "ConfigurationError"

\* the rows of the distance table recorded for the entry (i, j)
RowsFor(sensor_ids, distances_df, i, j) ==
    { r \in 1..Len(distances_df) :
        /\ distances_df[r].src = sensor_ids[i + 1]
        /\ distances_df[r].dst = sensor_ids[j + 1] }

BuiltOk == Built /\ call.result.status = "ok"

\* C6: in the matrix returned by generate_adjacency_matrix, every entry
\* (i, j) for which no distance row (sensor_ids[i], sensor_ids[j]) was
\* recorded, the diagonal included, is exactly 0.
C6_UnrecordedIsZero ==
    BuiltOk =>
        LET ids == read_sensor_ids(call.sensor_ids_file).value IN
        \A i, j \in 0..(Len(ids) - 1) :
            RowsFor(ids, call.distances_df, i, j) = {} =>
                call.result.value[i][j] = Zero

\* the distance table cut down to the last row of each (src, dst) pair whose
\* two sensors are both in the sensor-id list, in file order
RECURSIVE LastKnownRows(_, _)
LastKnownRows(rows, ids) ==
    IF rows = << >> THEN << >>
    ELSE LET row == Head(rows)
             rest == Tail(rows)
             known == \E i, j \in 1..Len(ids) : ids[i] = row.src /\ ids[j] = row.dst
             again == \E r \in 1..Len(rest) :
                          rest[r].src = row.src /\ rest[r].dst = row.dst
         IN  IF known /\ ~again THEN << row >> \o LastKnownRows(rest, ids)
             ELSE LastKnownRows(rest, ids)

\* C7: the matrix returned, and the standard deviation its kernel uses, are
\* those of the table cut down to the last row of each known (src, dst) pair:
\* rows with an unknown endpoint and overwritten rows change nothing, and
\* the distance entered for a pair is that of its last row alone.
C7_LastKnownRowOnly ==
    BuiltOk =>
        LET ids == read_sensor_ids(call.sensor_ids_file).value
            cut == LastKnownRows(call.distances_df, ids)
            matrix == distance_matrix(ids, call.distances_df)
        IN  /\ call.result =
                 generate_adjacency_matrix_result(call.sensor_ids_file, cut, normalized_k)
            /\ std(matrix) = std(distance_matrix(ids, cut))
            /\ \A i, j \in 0..(Len(ids) - 1) :
                 LET last == { r \in 1..Len(cut) :
                                 /\ sensor_id_to_idx(ids)[cut[r].src] = i
                                 /\ sensor_id_to_idx(ids)[cut[r].dst] = j }
                 IN  /\ \A r \in last : matrix[i][j] = Finite(cut[r].dist)
                     /\ last = {} => matrix[i][j] = Inf

\* a table whose first row is overwritten by its second, with another distance
C7_Witness ==
    /\ BuiltOk
    /\ call.sensor_ids_file = << "10", "20" >>
    /\ Len(call.distances_df) = 2
    /\ call.distances_df[1].src = 10 /\ call.distances_df[1].dst = 20
    /\ call.distances_df[2].src = 10 /\ call.distances_df[2].dst = 20
    /\ call.distances_df[1].dist # call.distances_df[2].dist

\* C8: whatever calls were made, the instance's fields keep their
\* constructor values, x, y and adjacency_matrix stay None and the data
\* property is (None, None).
C8_StateUnchanged ==
    /\ n_readings = ctor.n_readings
    /\ n_previous_steps = ctor.n_previous_steps
    /\ n_future_steps = ctor.n_future_steps
    /\ normalized_k = ctor.normalized_k
    /\ previous_offsets = arange(-ctor.n_previous_steps + 1, 1)
    /\ future_offsets = arange(1, ctor.n_future_steps + 1)
    /\ x = None /\ y = None /\ adjacency_matrix = None
    /\ data = << None, None >>
    /\ Built => call.result =
                    generate_adjacency_matrix_result(call.sensor_ids_file,
                                                     call.distances_df, ctor.normalized_k)

\* generate_adjacency_matrix has returned a matrix
C8_Witness == BuiltOk /\ Len0(call.result.value) > 0

\* all rows a center index t reads are rows of a table of n_readings rows
WindowInBounds(t) ==
    /\ \A j \in 1..Len(previous_offsets) :
        0 <= t + previous_offsets[j] /\ t + previous_offsets[j] < n_readings
    /\ \A j \in 1..Len(future_offsets) :
        0 <= t + future_offsets[j] /\ t + future_offsets[j] < n_readings

\* C9: a center index t has all its previous-offset and future-offset rows
\* inside [0, n_readings) if and only if min_t <= t < max_t (the centers
\* get_metrla_data takes its windows at), so no row outside the table is read.
C9_RangeIsInBounds ==
    \A t \in 0..(MaxReadings + MaxSteps) :
        WindowInBounds(t) <=> (min_t <= t /\ t < max_t)

\* C10: every entry of the matrix returned by generate_adjacency_matrix is
\* a kernel weight in [0,1] that is exactly 0 or not below normalized_k.
C10_WeightOrZero ==
    BuiltOk =>
        \A i, j \in DOMAIN call.result.value :
            LET weight == call.result.value[i][j] IN
            \/ weight = Zero
            \/ weight.kind = "exp" /\ ~below(weight, normalized_k)

====
